---- MODULE Spec2Model ----
(***************************************************************************)
(* Grant-writing request pipeline: lambda_function.py (the Lambda handler  *)
(* with generate / regenerate actions) and grant_french_english.py (the    *)
(* command-line variant with supplemental documents).                      *)
(*                                                                         *)
(* Texts that clean_response works on are sequences of one-character       *)
(* strings.  Request fields (question, feedback, ...) are opaque strings;  *)
(* Python's None is the value None below.                                  *)
(***************************************************************************)
EXTENDS Integers, Sequences, FiniteSets, TLC

VARIABLES variant, event, pc, action, question, user_data, options, feedback,
          previous_response, file_paths, document_text, language, prompt,
          promptsBuilt, calls, fetches, model_response, error,
          generated_text, cleaned_text, result, outcome

vars == <<variant, event, pc, action, question, user_data, options, feedback,
          previous_response, file_paths, document_text, language, prompt,
          promptsBuilt, calls, fetches, model_response, error,
          generated_text, cleaned_text, result, outcome>>

(* ------------------------------ bounds -------------------------------- *)

\* Number of fragments a raw model output is assembled from.
MaxPieces == 4
\* Cap on the count of inference calls of one request.
MaxCalls == 3

(* --------------------------- Python values ---------------------------- *)

None == "None"
EmptyDict == "{}"
Profile == "profile"

\* bool(v) of an optional string or dict: None, "" and {} are falsy.
Truthy(v) == v \notin {None, "", EmptyDict}

\* An options value: None, or a list of strings.
OptNone == [isNone |-> TRUE, items |-> <<>>]
OptList(xs) == [isNone |-> FALSE, items |-> xs]
\* bool(options): None and the empty list are falsy.
OptTruthy(o) == ~o.isNone /\ Len(o.items) > 0

(* ------------------------------ strings ------------------------------- *)

NL == "\n"
\* The characters str.strip() removes that the model's texts can hold.
Whitespace == {" ", "\n", "\t", "\r"}

Label1 == <<"R", "e", "s", "p", "o", "n", "s", "e", ":">>
Label2 == <<"*", "*", "R", "e", "s", "p", "o", "n", "s", "e", "*", "*", ":">>

RECURSIVE LStrip(_)
LStrip(s) ==
    IF s # <<>> /\ Head(s) \in Whitespace THEN LStrip(Tail(s)) ELSE s

RECURSIVE RStrip(_)
RStrip(s) ==
    IF s # <<>> /\ s[Len(s)] \in Whitespace
    THEN RStrip(SubSeq(s, 1, Len(s) - 1))
    ELSE s

\* str.strip()
strip(s) == RStrip(LStrip(s))

StartsWith(s, p) == Len(s) >= Len(p) /\ SubSeq(s, 1, Len(p)) = p

\* s.replace(old, "", 1): only the first occurrence is removed.
RECURSIVE replace_first(_, _)
replace_first(s, old) ==
    IF Len(s) < Len(old) THEN s
    ELSE IF StartsWith(s, old) THEN SubSeq(s, Len(old) + 1, Len(s))
    ELSE <<Head(s)>> \o replace_first(Tail(s), old)

\* s.replace(old, ""): one left-to-right pass over the non-overlapping
\* occurrences of old; the text joined by a removal is not scanned again.
RECURSIVE replace(_, _)
replace(s, old) ==
    IF Len(s) < Len(old) THEN s
    ELSE IF StartsWith(s, old)
         THEN replace(SubSeq(s, Len(old) + 1, Len(s)), old)
         ELSE <<Head(s)>> \o replace(Tail(s), old)

\* s.rsplit("\n", 1): the split is made at the last newline.
rsplit_newline(s) ==
    LET idx == {i \in 1..Len(s) : s[i] = NL}
    IN  IF idx = {} THEN <<s>>
        ELSE LET i == CHOOSE k \in idx : \A j \in idx : j <= k
             IN  <<SubSeq(s, 1, i - 1), SubSeq(s, i + 1, Len(s))>>

\* s.split("\n", 1): one part when s holds no newline, else the text before
\* the first newline and the text after it.
split_newline(s) ==
    LET idx == {i \in 1..Len(s) : s[i] = NL}
    IN  IF idx = {} THEN <<s>>
        ELSE LET i == CHOOSE k \in idx : \A j \in idx : k <= j
             IN  <<SubSeq(s, 1, i - 1), SubSeq(s, i + 1, Len(s))>>

clean_response(response_text) ==
    LET res0 == split_newline(response_text)
        res1 == IF Len(res0) > 1 THEN strip(res0[2]) ELSE strip(res0[1])
        res2 == strip(replace(res1, Label1))
        res3 == strip(replace(res2, Label2))
    IN  res3

(* ------------------------ language detection -------------------------- *)

QEn == "What is your name?"
QFr == "Quel est votre nom ?"
QDe == "Wie ist Ihr Name?"
Questions == {None, "", QEn, QFr, QDe}

Raises == "raises"
\* langdetect.detect with DetectorFactory.seed = 0: a language code, or an
\* exception for None (TypeError) and for a text with no features.
detect(text) ==
    CASE text = QEn -> "en"
      [] text = QFr -> "fr"
      [] text = QDe -> "de"
      [] OTHER -> Raises

\* detect_language without the test of the code against ["en", "fr"].
detect_language_unchecked(text) ==
    IF detect(text) = Raises THEN "en" ELSE detect(text)

detect_language(text) ==
    IF detect(text) = Raises THEN "en"
    ELSE IF detect(text) \notin {"en", "fr"} THEN "en"
    ELSE detect(text)

(* ------------------------------ prompts ------------------------------- *)

OptionValues ==
    {OptNone, OptList(<<>>), OptList(<<"2021">>), OptList(<<"2022", "2021">>)}

RECURSIVE ListItems(_)
ListItems(xs) ==
    IF xs = <<>> THEN <<>>
    ELSE <<"'", Head(xs), "'">>
         \o (IF Len(xs) > 1 THEN <<", ">> ELSE <<>>)
         \o ListItems(Tail(xs))

\* str(list): the elements' reprs in order, between brackets.
PyListStr(xs) == <<"[">> \o ListItems(xs) \o <<"]">>

\* The f-string field {options or placeholder}.
OptionsField(o, placeholder) ==
    IF OptTruthy(o) THEN PyListStr(o.items) ELSE <<placeholder>>

\* The f-string field {document_text or placeholder}.
DocumentField(text, placeholder) ==
    IF text # <<>> THEN text ELSE <<placeholder>>

\* json.dumps(user_data, indent=4)
json_dumps_data(v) ==
    CASE v = None -> <<"null">>
      [] v = EmptyDict -> <<"{}">>
      [] OTHER -> <<"{", v, "}">>

NoPrompt ==
    [kind |-> "none", template |-> "none", question |-> None,
     options_block |-> <<>>, user_data_block |-> <<>>,
     document_block |-> <<>>, feedback |-> None, previous_response |-> None]

\* generate_prompt with the English placeholder in the French template too.
generate_prompt_one_placeholder(lang, q, ud, opts) ==
    IF lang \in {"en", "fr"}
    THEN [NoPrompt EXCEPT !.kind = "generate", !.template = lang,
              !.question = q,
              !.options_block = OptionsField(opts, "Not provided"),
              !.user_data_block = json_dumps_data(ud)]
    ELSE NoPrompt

\* lambda_function.generate_prompt; None (NoPrompt) for any other language.
generate_prompt(lang, q, ud, opts) ==
    IF lang = "en"
    THEN [NoPrompt EXCEPT !.kind = "generate", !.template = "en",
              !.question = q,
              !.options_block = OptionsField(opts, "Not provided"),
              !.user_data_block = json_dumps_data(ud)]
    ELSE IF lang = "fr"
    THEN [NoPrompt EXCEPT !.kind = "generate", !.template = "fr",
              !.question = q,
              !.options_block = OptionsField(opts, "Non fourni"),
              !.user_data_block = json_dumps_data(ud)]
    ELSE NoPrompt

\* grant_french_english.generate_prompt, with the supplemental document.
grant_generate_prompt(lang, q, ud, doc, opts) ==
    IF lang = "en"
    THEN [NoPrompt EXCEPT !.kind = "generate", !.template = "en",
              !.question = q,
              !.options_block = OptionsField(opts, "Not provided"),
              !.user_data_block = json_dumps_data(ud),
              !.document_block = DocumentField(doc, "Not provided")]
    ELSE IF lang = "fr"
    THEN [NoPrompt EXCEPT !.kind = "generate", !.template = "fr",
              !.question = q,
              !.options_block = OptionsField(opts, "Non fourni"),
              !.user_data_block = json_dumps_data(ud),
              !.document_block = DocumentField(doc, "Non fourni")]
    ELSE NoPrompt

rewrite_section(prev, fb, q, ud, opts) ==
    [NoPrompt EXCEPT !.kind = "rewrite", !.template = "rewrite",
         !.question = q, !.feedback = fb, !.previous_response = prev,
         !.user_data_block = json_dumps_data(ud),
         !.options_block = OptionsField(opts, "Not provided")]

(* ----------------------------- documents ------------------------------ *)

\* A file path, as its parts between the dots.
FilePathLists ==
    {<<>>, <<<<"plan", "pdf">>>>, <<<<"broken", "pdf">>>>,
     <<<<"scan", "PNG">>, <<"notes", "txt">>>>}

\* str.lower() on the extensions above.
lower(ext) == IF ext = "PNG" THEN "png" ELSE ext

\* extract_text_from_pdf / _docx / _image: the cleaned text of the file, or
\* "" when the reader raises.
extract_text(file_path) ==
    IF file_path[1] = "broken" THEN <<>> ELSE <<"text of ", file_path[1]>>

process_uploaded_document(file_path) ==
    LET file_type == lower(file_path[Len(file_path)])
    IN  IF file_type \in {"pdf", "docx", "png", "jpg", "jpeg"}
        THEN extract_text(file_path)
        ELSE <<"Unsupported file type: ", file_type>>

\* "\n\n".join(document_texts)
RECURSIVE join_documents(_)
join_documents(texts) ==
    IF texts = <<>> THEN <<>>
    ELSE IF Len(texts) = 1 THEN Head(texts)
    ELSE Head(texts) \o <<"\n\n">> \o join_documents(Tail(texts))

combined_document_text(paths) ==
    join_documents([i \in 1..Len(paths) |-> process_uploaded_document(paths[i])])

(* ------------------------------ requests ------------------------------ *)

ActionValues == {None, "generate", "regenerate", "delete"}
FeedbackValues == {None, "", "too long"}
PreviousValues == {None, "", "We sell maps."}

\* The payload read when the body is not an object, never used.
NoPayload ==
    [hasAction |-> FALSE, action |-> None, question |-> None,
     user_data |-> None, options |-> OptNone, feedback |-> None,
     previous_response |-> None]

Payloads ==
    {[hasAction |-> h, action |-> a, question |-> q, user_data |-> u,
      options |-> o, feedback |-> f, previous_response |-> p] :
        h \in BOOLEAN, a \in ActionValues, q \in Questions,
        u \in {None, Profile}, o \in OptionValues, f \in FeedbackValues,
        p \in PreviousValues}

\* The invocation event: bodyKind says what event["body"] holds ("absent": no
\* body or a falsy one, the fields are the event's own; "object": the JSON
\* text of an object with the fields; "array": valid JSON that is no object;
\* "invalid": text that is not JSON).
Events ==
    {[bodyKind |-> b, payload |-> pl] :
        b \in {"absent", "object"},
        pl \in {x \in Payloads : ~x.hasAction => x.action = None}}
    \cup {[bodyKind |-> b, payload |-> NoPayload] : b \in {"array", "invalid"}}

NoEvent == [bodyKind |-> "none", payload |-> NoPayload]

\* event.get("action", "generate")
GetAction(pl) == IF pl.hasAction THEN pl.action ELSE "generate"

(* ------------------------------ results ------------------------------- *)

NoneResult == [isNone |-> TRUE, text |-> <<>>]
Text(t) == [isNone |-> FALSE, text |-> t]

\* The message is kept as one piece: clean_response never reads it.
InvalidActionMessage ==
    <<"Invalid action or missing feedback for regeneration.">>

\* json.dumps(response) of None or a string.
json_dumps(r) ==
    IF r.isNone THEN <<"null">> ELSE <<"\"">> \o r.text \o <<"\"">>

NoOutcome == [kind |-> "none", statusCode |-> 0, body |-> <<>>, exc |-> "none"]
Envelope(code, body) ==
    [kind |-> "envelope", statusCode |-> code, body |-> body, exc |-> "none"]
Unhandled(exc) ==
    [kind |-> "unhandled", statusCode |-> 0, body |-> <<>>, exc |-> exc]

(* --------------------------- model outputs ---------------------------- *)

Fragments ==
    {Label1, Label2, <<"R", "e", "s", "p">>, <<"o", "n", "s", "e", ":">>,
     <<"*", "*">>, <<"o", "n", "s", "e", "*", "*", ":">>,
     <<" ">>, <<NL>>, <<"H", "i">>}

RECURSIVE Concats(_)
Concats(n) ==
    IF n = 0 THEN {<<>>}
    ELSE {<<>>} \cup {f \o t : f \in Fragments, t \in Concats(n - 1)}

\* The raw generations of the clean_response specification.
RawTexts == Concats(MaxPieces)

\* The generations of the whole-request specification.
Generations ==
    {<<>>, <<"H", "i">>, Label1 \o <<NL>> \o <<"H", "i">>,
     <<" ", NL>> \o Label2 \o <<" ", "H", "i", " ">>}

NoResponse == [hasGeneration |-> FALSE, generation |-> <<>>]
ModelResponses ==
    {NoResponse} \cup {[hasGeneration |-> TRUE, generation |-> g] : g \in Generations}

\* response.get("generation", "")
GetGeneration(r) == IF r.hasGeneration THEN r.generation ELSE <<>>

(* ------------------------------- state -------------------------------- *)

\* The locals of a request that has not run yet.
Fresh ==
    /\ action = None /\ question = None /\ user_data = None
    /\ options = OptNone /\ feedback = None /\ previous_response = None
    /\ file_paths = <<>> /\ document_text = <<>>
    /\ language = "unset" /\ prompt = NoPrompt
    /\ promptsBuilt = 0 /\ calls = 0 /\ fetches = 0
    /\ model_response = NoResponse /\ error = "none"
    /\ generated_text = <<>> /\ cleaned_text = <<>>
    /\ result = NoneResult /\ outcome = NoOutcome

\* lambda_handler is entered with an event.
InitLambda ==
    /\ variant = "lambda" /\ event \in Events /\ pc = "handler"
    /\ Fresh

\* grant_french_english's __main__ starts; the question, the options and the
\* uploaded files are the literals of the script.
InitGrant ==
    /\ variant = "grant" /\ event = NoEvent /\ pc = "main"
    /\ action = None /\ user_data = None
    /\ question \in Questions \ {None}
    /\ options \in OptionValues
    /\ file_paths \in FilePathLists
    /\ feedback = None /\ previous_response = None
    /\ document_text = <<>>
    /\ language = "unset" /\ prompt = NoPrompt
    /\ promptsBuilt = 0 /\ calls = 0 /\ fetches = 0
    /\ model_response = NoResponse /\ error = "none"
    /\ generated_text = <<>> /\ cleaned_text = <<>>
    /\ result = NoneResult /\ outcome = NoOutcome

Init == InitLambda \/ InitGrant

(* ------------------------------ actions ------------------------------- *)

\* lambda_handler, lines 187-197: the body is absent or parses to an object,
\* the fields are read and the orchestration is called.
ParseEvent ==
    /\ pc = "handler"
    /\ event.bodyKind \in {"absent", "object"}
    /\ action' = GetAction(event.payload)
    /\ question' = event.payload.question
    /\ user_data' = event.payload.user_data
    /\ options' = event.payload.options
    /\ feedback' = event.payload.feedback
    /\ previous_response' = event.payload.previous_response
    /\ pc' = "integrate"
    /\ UNCHANGED <<variant, event, file_paths, document_text, language,
                   prompt, promptsBuilt, calls, fetches, model_response,
                   error, generated_text, cleaned_text, result, outcome>>

\* lambda_handler, lines 188 and 190: json.loads raises on a body that is not
\* JSON, and a parsed body that is no object has no get; nothing catches it.
ParseEventRaises ==
    /\ pc = "handler"
    /\ event.bodyKind \in {"invalid", "array"}
    /\ outcome' = Unhandled(IF event.bodyKind = "invalid"
                            THEN "JSONDecodeError" ELSE "AttributeError")
    /\ pc' = "raised"
    /\ UNCHANGED <<variant, event, action, question, user_data, options,
                   feedback, previous_response, file_paths, document_text,
                   language, prompt, promptsBuilt, calls, fetches,
                   model_response, error, generated_text, cleaned_text,
                   result>>

\* __main__, lines 289-292: the profile is fetched; fetch_user_data returns {}
\* on any failure and the script exits on a falsy profile.
MainFetch ==
    /\ pc = "main"
    /\ \E fetched \in {EmptyDict, Profile} :
          /\ user_data' = fetched
          /\ pc' = IF Truthy(fetched) THEN "integrate" ELSE "exited"
    /\ fetches' = fetches + 1
    /\ UNCHANGED <<variant, event, action, question, options, feedback,
                   previous_response, file_paths, document_text, language,
                   prompt, promptsBuilt, calls, model_response, error,
                   generated_text, cleaned_text, result, outcome>>

\* grant_french_english, lines 239-244.
ProcessDocuments ==
    /\ variant = "grant" /\ pc = "integrate"
    /\ document_text' = combined_document_text(file_paths)
    /\ pc' = "documents"
    /\ UNCHANGED <<variant, event, action, question, user_data, options,
                   feedback, previous_response, file_paths, language, prompt,
                   promptsBuilt, calls, fetches, model_response, error,
                   generated_text, cleaned_text, result, outcome>>

\* language = detect_language(question)
DetectLanguage ==
    /\ \/ variant = "lambda" /\ pc = "integrate"
       \/ variant = "grant" /\ pc = "documents"
    /\ language' = detect_language(question)
    /\ pc' = "detected"
    /\ UNCHANGED <<variant, event, action, question, user_data, options,
                   feedback, previous_response, file_paths, document_text,
                   prompt, promptsBuilt, calls, fetches, model_response,
                   error, generated_text, cleaned_text, result, outcome>>

\* The branch of lines 153-158 with every unknown action taken as "generate".
PromptPathDefaultGenerate(a, fb, prev) ==
    IF a = "regenerate"
    THEN IF Truthy(fb) /\ Truthy(prev) THEN "rewrite" ELSE "invalid"
    ELSE "generate"

\* The branch of lines 153-158 asking for the feedback alone.
PromptPathFeedbackOnly(a, fb, prev) ==
    IF a = "generate" THEN "generate"
    ELSE IF a = "regenerate" /\ Truthy(fb) THEN "rewrite"
    ELSE "invalid"

\* The branch of lines 153-158.
PromptPath(a, fb, prev) ==
    IF a = "generate" THEN "generate"
    ELSE IF a = "regenerate" /\ Truthy(fb) /\ Truthy(prev) THEN "rewrite"
    ELSE "invalid"

BuildGeneratePrompt ==
    /\ variant = "lambda" /\ pc = "detected"
    /\ PromptPath(action, feedback, previous_response) = "generate"
    /\ prompt' = generate_prompt(language, question, user_data, options)
    /\ promptsBuilt' = promptsBuilt + 1
    /\ pc' = "prompted"
    /\ UNCHANGED <<variant, event, action, question, user_data, options,
                   feedback, previous_response, file_paths, document_text,
                   language, calls, fetches, model_response, error,
                   generated_text, cleaned_text, result, outcome>>

BuildRewritePrompt ==
    /\ variant = "lambda" /\ pc = "detected"
    /\ PromptPath(action, feedback, previous_response) = "rewrite"
    /\ prompt' = rewrite_section(previous_response, feedback, question,
                                 user_data, options)
    /\ promptsBuilt' = promptsBuilt + 1
    /\ pc' = "prompted"
    /\ UNCHANGED <<variant, event, action, question, user_data, options,
                   feedback, previous_response, file_paths, document_text,
                   language, calls, fetches, model_response, error,
                   generated_text, cleaned_text, result, outcome>>

ReturnInvalidAction ==
    /\ variant = "lambda" /\ pc = "detected"
    /\ PromptPath(action, feedback, previous_response) = "invalid"
    /\ result' = Text(InvalidActionMessage)
    /\ pc' = "integrated"
    /\ UNCHANGED <<variant, event, action, question, user_data, options,
                   feedback, previous_response, file_paths, document_text,
                   language, prompt, promptsBuilt, calls, fetches,
                   model_response, error, generated_text, cleaned_text,
                   outcome>>

\* grant_french_english, lines 247-249.
GrantBuildPrompt ==
    /\ variant = "grant" /\ pc = "detected"
    /\ prompt' = grant_generate_prompt(language, question, user_data,
                                       document_text, options)
    /\ promptsBuilt' = promptsBuilt + 1
    /\ pc' = "prompted"
    /\ UNCHANGED <<variant, event, action, question, user_data, options,
                   feedback, previous_response, file_paths, document_text,
                   language, calls, fetches, model_response, error,
                   generated_text, cleaned_text, result, outcome>>

\* The call site with the call made again from the except clauses.
CanInvokeRetrying == pc \in {"prompted", "caught"}

\* generate_text is called at one place, inside the try, after the prompt.
CanInvoke == pc = "prompted"

\* generate_text returns the model's response.
InvokeReturns ==
    /\ CanInvoke /\ calls < MaxCalls
    /\ \E r \in ModelResponses : model_response' = r
    /\ calls' = calls + 1
    /\ pc' = "generated"
    /\ UNCHANGED <<variant, event, action, question, user_data, options,
                   feedback, previous_response, file_paths, document_text,
                   language, prompt, promptsBuilt, fetches, error,
                   generated_text, cleaned_text, result, outcome>>

\* generate_text raises: a ClientError or any other exception, each caught
\* and logged by its except clause.
InvokeRaises ==
    /\ CanInvoke /\ calls < MaxCalls
    /\ \E e \in {"ClientError", "Exception"} : error' = e
    /\ calls' = calls + 1
    /\ pc' = "caught"
    /\ UNCHANGED <<variant, event, action, question, user_data, options,
                   feedback, previous_response, file_paths, document_text,
                   language, prompt, promptsBuilt, fetches, model_response,
                   generated_text, cleaned_text, result, outcome>>

\* Lines 172-174: the generation is read, cleaned and returned.
CleanAndReturn ==
    /\ pc = "generated"
    /\ generated_text' = GetGeneration(model_response)
    /\ cleaned_text' = clean_response(GetGeneration(model_response))
    /\ result' = Text(clean_response(GetGeneration(model_response)))
    /\ pc' = "integrated"
    /\ UNCHANGED <<variant, event, action, question, user_data, options,
                   feedback, previous_response, file_paths, document_text,
                   language, prompt, promptsBuilt, calls, fetches,
                   model_response, error, outcome>>

\* Line 180, after either except clause.
ReturnNone ==
    /\ pc = "caught"
    /\ result' = NoneResult
    /\ pc' = "integrated"
    /\ UNCHANGED <<variant, event, action, question, user_data, options,
                   feedback, previous_response, file_paths, document_text,
                   language, prompt, promptsBuilt, calls, fetches,
                   model_response, error, generated_text, cleaned_text,
                   outcome>>

\* lambda_handler, line 201.
LambdaReturn ==
    /\ variant = "lambda" /\ pc = "integrated"
    /\ outcome' = Envelope(200, json_dumps(result))
    /\ pc' = "done"
    /\ UNCHANGED <<variant, event, action, question, user_data, options,
                   feedback, previous_response, file_paths, document_text,
                   language, prompt, promptsBuilt, calls, fetches,
                   model_response, error, generated_text, cleaned_text,
                   result>>

\* __main__, line 316: the response is printed.
GrantPrint ==
    /\ variant = "grant" /\ pc = "integrated"
    /\ pc' = "done"
    /\ UNCHANGED <<variant, event, action, question, user_data, options,
                   feedback, previous_response, file_paths, document_text,
                   language, prompt, promptsBuilt, calls, fetches,
                   model_response, error, generated_text, cleaned_text,
                   result, outcome>>

Next ==
    \/ ParseEvent
    \/ ParseEventRaises
    \/ MainFetch
    \/ ProcessDocuments
    \/ DetectLanguage
    \/ BuildGeneratePrompt
    \/ BuildRewritePrompt
    \/ ReturnInvalidAction
    \/ GrantBuildPrompt
    \/ InvokeReturns
    \/ InvokeRaises
    \/ CleanAndReturn
    \/ ReturnNone
    \/ LambdaReturn
    \/ GrantPrint

Spec == Init /\ [][Next]_vars

(* ------------------- clean_response on its own ----------------------- *)

\* A generate request for which generate_text has just returned a raw text.
InitClean ==
    /\ variant = "lambda"
    /\ event = [bodyKind |-> "absent",
                payload |-> [NoPayload EXCEPT !.question = QEn,
                                              !.user_data = Profile]]
    /\ pc = "generated"
    /\ action = "generate" /\ question = QEn /\ user_data = Profile
    /\ options = OptNone /\ feedback = None /\ previous_response = None
    /\ file_paths = <<>> /\ document_text = <<>>
    /\ language = "en"
    /\ prompt = generate_prompt("en", QEn, Profile, OptNone)
    /\ promptsBuilt = 1 /\ calls = 1 /\ fetches = 0
    /\ model_response \in
          {[hasGeneration |-> TRUE, generation |-> g] : g \in RawTexts}
    /\ error = "none"
    /\ generated_text = <<>> /\ cleaned_text = <<>>
    /\ result = NoneResult /\ outcome = NoOutcome

NextClean == CleanAndReturn \/ LambdaReturn

SpecClean == InitClean /\ [][NextClean]_vars

(* ------------------------------- claims ------------------------------- *)

Parsed == variant = "lambda" /\ event.bodyKind \in {"absent", "object"}
Returned == pc \in {"integrated", "done"}
RegenerateReady ==
    /\ action = "regenerate"
    /\ feedback \notin {None, ""}
    /\ previous_response \notin {None, ""}

\* C1: a request whose question is missing (absent or null) is answered with
\* statusCode 400, and neither a user-data fetch nor the inference call is
\* attempted on it.
C1_MissingQuestionIs400 ==
    (Parsed /\ event.payload.question = None)
        => /\ calls = 0
           /\ fetches = 0
           /\ (pc = "done" => outcome.statusCode = 400)

\* C2: the rewrite prompt is built only for action "regenerate" with both
\* feedback and previous_response present; every other request whose action
\* is not "generate" gets the fixed invalid-action message, and generate_text
\* is never called on it.
C2_InvalidActionNoInference ==
    variant = "lambda" =>
        /\ prompt.kind = "rewrite" => RegenerateReady
        /\ (pc \notin {"handler", "raised"} /\ action # "generate"
                /\ ~RegenerateReady)
             => /\ calls = 0
                /\ prompt = NoPrompt
                /\ Returned => result = Text(InvalidActionMessage)

C2_Witness ==
    /\ variant = "lambda" /\ pc = "done"
    /\ action = "regenerate" /\ feedback = "too long"
    /\ previous_response = None
    /\ result = Text(InvalidActionMessage) /\ calls = 0

\* C3: lambda_handler always ends by returning a {statusCode, body} envelope,
\* never by raising an unhandled exception.
C3_NothingPropagates ==
    variant = "lambda" =>
        /\ pc # "raised"
        /\ outcome.kind # "unhandled"

\* C4: a failed inference call is recovered as None and reaches the caller as
\* statusCode 500 or as an error string in the body, never as a 200 success.
C4_FailedInferenceIsNot200 ==
    (variant = "lambda" /\ error # "none") =>
        /\ Returned => result = NoneResult
        /\ pc = "done" =>
              /\ outcome.statusCode # 200
              /\ outcome.statusCode = 500 \/ outcome.body # <<"null">>

\* C5: detect_language returns "en" or "fr": the detected code when it is one
\* of the two, "en" when the detector raises or yields any other code; and the
\* request goes on after a failed detection.
C5_LanguageIsEnOrFr ==
    language # "unset" =>
        /\ language \in {"en", "fr"}
        /\ detect(question) \in {"en", "fr"} => language = detect(question)
        /\ detect(question) \notin {"en", "fr"} => language = "en"
        /\ pc # "raised"

C5_Witness ==
    /\ pc = "done" /\ promptsBuilt = 1
    /\ detect(question) = Raises /\ language = "en"

\* C8: generate_text is called at most once per request, and when that call
\* fails the request ends with the single result None.
C8_NoRetry ==
    /\ calls <= 1
    /\ (error # "none" /\ Returned) => (result = NoneResult /\ calls = 1)

C8_Witness == pc = "done" /\ error = "ClientError" /\ calls = 1

\* C9 (as claimed): every invocation of the orchestration builds one and only
\* one prompt before it returns.
C9_ExactlyOnePrompt == Returned => promptsBuilt = 1

\* C9 (amended): no request builds more than one prompt; the orchestration
\* returns with exactly one prompt built when the action is "generate" or a
\* regenerate with feedback and previous_response (and always in
\* grant_french_english), and with none built on the invalid-action path.
C9_OnePromptUnlessInvalid ==
    /\ promptsBuilt <= 1
    /\ Returned =>
          /\ (variant = "grant" \/ action = "generate" \/ RegenerateReady)
                => promptsBuilt = 1
          /\ (variant = "lambda" /\ action # "generate" /\ ~RegenerateReady)
                => (promptsBuilt = 0 /\ result = Text(InvalidActionMessage))

C9_Witness ==
    /\ pc = "done" /\ variant = "lambda" /\ action = "delete"
    /\ promptsBuilt = 0

\* The options of a rendered options block, in their order.
ItemsOf(block) ==
    SelectSeq(block, LAMBDA t : t \notin {"[", "]", "'", ", "})

Placeholder(lang) == IF lang = "fr" THEN "Non fourni" ELSE "Not provided"

\* C10 (as claimed): every supplied options sequence, the empty one too, is
\* rendered as the list of its elements in order, and the placeholder only
\* when options is absent, "Not provided" in English, "Non fourni" in French.
C10_SuppliedOptionsRendered ==
    prompt.kind = "generate" =>
        /\ ~options.isNone =>
              /\ prompt.options_block = PyListStr(options.items)
              /\ ItemsOf(prompt.options_block) = options.items
        /\ options.isNone =>
              prompt.options_block = <<Placeholder(prompt.template)>>

\* C10 (amended): a non-empty options sequence is rendered as the list of its
\* elements in order; the placeholder is rendered when options is absent or
\* empty, "Not provided" in the English template, "Non fourni" in the French.
C10_NonEmptyOptionsRendered ==
    prompt.kind = "generate" =>
        /\ (~options.isNone /\ options.items # <<>>) =>
              /\ Head(prompt.options_block) = "["
              /\ ItemsOf(prompt.options_block) = options.items
        /\ (options.isNone \/ options.items = <<>>) =>
              prompt.options_block = <<Placeholder(language)>>

C10_Witness ==
    /\ prompt.kind = "generate" /\ language = "fr"
    /\ options = OptList(<<>>)
    /\ prompt.options_block = <<"Non fourni">>

(* ----------------------- claims on clean_response --------------------- *)

Contains(s, label) ==
    \E i \in 1..Len(s) : StartsWith(SubSeq(s, i, Len(s)), label)

HasLabel(s) == Contains(s, Label1) \/ Contains(s, Label2)

\* The text a raw output is cleaned from: what follows its first newline, or
\* all of it when it holds none.
KeptText(raw) ==
    IF \E i \in 1..Len(raw) : raw[i] = NL
    THEN LET first == CHOOSE i \in 1..Len(raw) :
                          /\ raw[i] = NL
                          /\ \A j \in 1..(i - 1) : raw[j] # NL
         IN  SubSeq(raw, first + 1, Len(raw))
    ELSE raw

\* Every occurrence of a label in s is followed by whitespace or ends s.
LabelsEndWords(s) ==
    \A label \in {Label1, Label2} :
        \A i \in 1..Len(s) :
            StartsWith(SubSeq(s, i, Len(s)), label)
                => \/ i + Len(label) > Len(s)
                   \/ s[i + Len(label)] \in Whitespace

Cleaned == variant = "lambda" /\ pc = "done" /\ model_response.hasGeneration

\* C6 (as claimed): the result of clean_response holds no occurrence of
\* "Response:" or "**Response**:", whatever the raw text.
C6_NoLabelInResult == Cleaned => ~HasLabel(cleaned_text)

\* C6 (amended): when every label occurrence in the kept text is followed by
\* whitespace or ends the text, the result of clean_response holds neither
\* label; each label is removed in one pass, so a label that a removal puts
\* together from the text around it stays in the result.
C6_NoLabelAfterWordLabels ==
    (Cleaned /\ LabelsEndWords(KeptText(model_response.generation)))
        => ~HasLabel(cleaned_text)

C6_Witness ==
    /\ Cleaned
    /\ Contains(KeptText(model_response.generation), Label1)
    /\ Contains(KeptText(model_response.generation), Label2)
    /\ LabelsEndWords(KeptText(model_response.generation))
    /\ cleaned_text = <<"H", "i">>

\* C7: the result is computed from the text after the first newline alone
\* (all of the text when it holds no newline), the same as for that text
\* under an empty first line; when the kept text holds neither label the
\* result is the kept text stripped of surrounding whitespace.
C7_FirstLineDropped ==
    Cleaned =>
        LET kept == KeptText(model_response.generation)
        IN  /\ cleaned_text = clean_response(<<NL>> \o kept)
            /\ ~HasLabel(kept) => cleaned_text = strip(kept)

C7_Witness ==
    /\ Cleaned
    /\ StartsWith(model_response.generation, Label1 \o <<NL>>)
    /\ KeptText(model_response.generation) = <<" ", "H", "i">>
    /\ cleaned_text = <<"H", "i">>

====
